---- MODULE Spec2Model ----
(***************************************************************************)
(* Model of scanner.py: an interactive wrapper that asks for a CIDR range   *)
(* and an output format, runs python-nmap's PortScanner.scan, then spawns   *)
(* an nmap subprocess that writes a report to a timestamped file while the  *)
(* script follows the subprocess's stdout to drive a progress bar.          *)
(*                                                                          *)
(* Python strings are modelled as sequences of one-character strings, so    *)
(* that strip, lower, replace, split and the f-string concatenations are    *)
(* computed character by character.                                         *)
(***************************************************************************)
EXTENDS Integers, Sequences, FiniteSets, TLC

----------------------------------------------------------------------------
(* Bounds of the model *)

\* number of times the CIDR prompt may be shown in one run
MaxCidrPrompts == 2
\* number of writes (lines / chunks) the nmap subprocess performs at most
MaxWrites == 2
\* capacity of an OS pipe, counted in lines / chunks (64 KiB on Linux)
PipeCap == 1
\* number of seconds the wall clock may advance during one run
MaxTicks == 1

----------------------------------------------------------------------------
(* Characters and string helpers *)

DigitChars == <<"0", "1", "2", "3", "4", "5", "6", "7", "8", "9">>

UpperChars == <<"A", "B", "C", "D", "E", "F", "G", "H", "I", "J", "K", "L", "M",
                "N", "O", "P", "Q", "R", "S", "T", "U", "V", "W", "X", "Y", "Z">>

LowerChars == <<"a", "b", "c", "d", "e", "f", "g", "h", "i", "j", "k", "l", "m",
                "n", "o", "p", "q", "r", "s", "t", "u", "v", "w", "x", "y", "z">>

\* characters str.strip() removes (the whitespace the inputs can contain)
Whitespace == {" ", "\t"}

IsDigit(c) == \E i \in 1..10 : DigitChars[i] = c

\* value of a decimal digit character
DigitVal(c) == (CHOOSE i \in 1..10 : DigitChars[i] = c) - 1

\* str.lower() on one character
LowerChar(c) ==
    IF \E i \in 1..26 : UpperChars[i] = c
    THEN LowerChars[CHOOSE i \in 1..26 : UpperChars[i] = c]
    ELSE c

\* str.lower()
lower(s) == [i \in 1..Len(s) |-> LowerChar(s[i])]

\* str.strip(): drop leading and trailing whitespace
strip(s) ==
    LET keep == {i \in 1..Len(s) : s[i] \notin Whitespace}
    IN  IF keep = {} THEN <<>>
        ELSE LET lo == CHOOSE i \in keep : \A j \in keep : i <= j
                 hi == CHOOSE i \in keep : \A j \in keep : j <= i
             IN  SubSeq(s, lo, hi)

\* str.replace(old, new) for a one-character old and new
replace(s, old, new) == [i \in 1..Len(s) |-> IF s[i] = old THEN new ELSE s[i]]

\* str.split(sep) for a one-character separator
RECURSIVE split(_, _)
split(s, sep) ==
    LET hits == {i \in 1..Len(s) : s[i] = sep}
    IN  IF hits = {} THEN <<s>>
        ELSE LET k == CHOOSE i \in hits : \A j \in hits : i <= j
             IN  <<SubSeq(s, 1, k - 1)>> \o split(SubSeq(s, k + 1, Len(s)), sep)

\* int() of a string of decimal digits
RECURSIVE int(_)
int(s) == IF s = <<>> THEN 0
          ELSE 10 * int(SubSeq(s, 1, Len(s) - 1)) + DigitVal(s[Len(s)])

AllDigits(s) == s # <<>> /\ \A i \in 1..Len(s) : IsDigit(s[i])

Pow2(n) == IF n = 0 THEN 1 ELSE IF n = 1 THEN 2 ELSE IF n = 2 THEN 4
           ELSE IF n = 3 THEN 8 ELSE IF n = 4 THEN 16 ELSE IF n = 5 THEN 32
           ELSE IF n = 6 THEN 64 ELSE IF n = 7 THEN 128 ELSE 256

----------------------------------------------------------------------------
(* ipaddress.IPv4Network(cidr), strict mode, as validate_cidr uses it *)

\* one dotted-quad octet: 1 to 3 ASCII digits, no leading zero, at most 255
OctetOk(o) ==
    /\ AllDigits(o)
    /\ Len(o) <= 3
    /\ ~(o # <<"0">> /\ o[1] = "0")
    /\ int(o) <= 255

\* IPv4Address parsing: exactly four valid octets
AddressOk(a) ==
    /\ a # <<>>
    /\ LET octs == split(a, ".")
       IN  Len(octs) = 4 /\ \A i \in 1..4 : OctetOk(octs[i])

Octets(a) == LET octs == split(a, ".") IN [i \in 1..4 |-> int(octs[i])]

\* number of leading one bits of an octet that is ones followed by zeros, else -1
OctetOnes(v) ==
    IF \E k \in 0..8 : v = 256 - Pow2(8 - k)
    THEN CHOOSE k \in 0..8 : v = 256 - Pow2(8 - k)
    ELSE -1

\* _prefix_from_ip_int: prefix length of a netmask (ones followed by zeros), else -1
MaskPrefix(m) ==
    IF /\ \A i \in 1..4 : OctetOnes(m[i]) >= 0
       /\ \A i \in 1..3 : m[i] = 255 \/ m[i + 1] = 0
    THEN OctetOnes(m[1]) + OctetOnes(m[2]) + OctetOnes(m[3]) + OctetOnes(m[4])
    ELSE -1

\* _make_netmask: a decimal prefix 0..32, else a dotted netmask, else a dotted
\* hostmask; -1 when the text is none of these
PrefixOf(p) ==
    IF AllDigits(p) /\ int(p) <= 32 THEN int(p)
    ELSE IF ~AddressOk(p) THEN -1
    ELSE LET m == Octets(p)
             inv == [i \in 1..4 |-> 255 - m[i]]
         IN  IF MaskPrefix(m) >= 0 THEN MaskPrefix(m) ELSE MaskPrefix(inv)

\* number of host bits that fall into octet i under prefix length p
HostBits(i, p) ==
    LET h == 8 * i - p IN IF h < 0 THEN 0 ELSE IF h > 8 THEN 8 ELSE h

\* strict=True: no bit of the address may be set under the host mask
NoHostBits(a, p) == \A i \in 1..4 : a[i] % Pow2(HostBits(i, p)) = 0

\* IPv4Network(cidr) does not raise ValueError
IPv4NetworkOk(cidr) ==
    LET parts == split(cidr, "/")
    IN  /\ Len(parts) <= 2
        /\ AddressOk(parts[1])
        /\ LET p == IF Len(parts) = 1 THEN 32 ELSE PrefixOf(parts[2])
           IN  p >= 0 /\ NoHostBits(Octets(parts[1]), p)

\* validate_cidr(cidr): True iff IPv4Network accepts the text
validate_cidr(cidr) == IPv4NetworkOk(cidr)

----------------------------------------------------------------------------
(* Text constants of the script and the inputs the model draws from *)

None == <<"None">>

Yes == <<"y", "e", "s">>
XML == <<"x", "m", "l">>
JSON == <<"j", "s", "o", "n">>
GREPABLE == <<"g", "r", "e", "p", "a", "b", "l", "e">>
NORMAL == <<"n", "o", "r", "m", "a", "l">>

\* valid_formats of scan_network
valid_formats == {XML, JSON, GREPABLE, NORMAL}

\* output_flags of scan_network
output_flags ==
    (XML :> <<"-", "o", "X">>) @@ (JSON :> <<"-", "o", "J">>) @@
    (GREPABLE :> <<"-", "o", "G">>) @@ (NORMAL :> <<"-", "o", "N">>)

\* options of main
options == <<"-", "s", "S", " ", "-", "s", "V", " ", "-", "O", " ", "-", "A", " ",
             "-", "p", " ", "1", "-", "1", "0", "0", "0">>

\* total_ports of scan_network
total_ports == 1000

\* the text the progress loop looks for
PortsScanned == <<"P", "o", "r", "t", "s", " ", "s", "c", "a", "n", "n", "e", "d">>

\* answers typed at the help prompt
HelpInputs == { Yes, <<" ", "Y", "E", "S", " ">>, <<"n", "o">> }

\* lines typed at the CIDR prompt
CidrInputs ==
    { <<"1", ".", "0", ".", "0", ".", "0", "/", "8">>,
      <<" ", "1", ".", "0", ".", "0", ".", "1", "\t">>,
      <<"1", ".", "0", ".", "0", ".", "1", "/", "8">>,
      <<>> }

\* lines typed at the output format prompt
FormatInputs ==
    { XML, <<" ", "J", "S", "O", "N", " ">>, GREPABLE, NORMAL,
      <<"y", "a", "m", "l">> }

\* lines the nmap subprocess may write to its standard output
NmapLines ==
    { PortsScanned \o <<":", " ", "1", "0">>,
      <<"p", "o", "r", "t", "s", " ", "s", "c", "a", "n", "n", "e", "d">> }

\* wall clock readings (seconds since 2024-01-01 00:00:00) a run may start at
StartClocks == {86399}

\* "needle in line" of Python
Contains(line, needle) ==
    \E i \in 1..(Len(line) - Len(needle) + 1) :
        SubSeq(line, i, i + Len(needle) - 1) = needle

----------------------------------------------------------------------------
(* generate_unique_filename *)

Pad2(n) == <<DigitChars[(n \div 10) + 1], DigitChars[(n % 10) + 1]>>

Pad4(n) == Pad2(n \div 100) \o Pad2(n % 100)

\* datetime.now() for a clock reading
now(t) ==
    [year |-> 2024, month |-> 1, day |-> 1 + (t \div 86400),
     hour |-> (t % 86400) \div 3600, minute |-> (t % 3600) \div 60,
     second |-> t % 60]

\* strftime("%Y%m%d_%H%M%S")
strftime(d) ==
    Pad4(d.year) \o Pad2(d.month) \o Pad2(d.day) \o <<"_">> \o
    Pad2(d.hour) \o Pad2(d.minute) \o Pad2(d.second)

\* generate_unique_filename with only the "/" of the target replaced
generate_unique_filename_SlashOnly(fmt, target_cidr, t) ==
    LET timestamp == strftime(now(t))
        safe_target == replace(target_cidr, "/", "_")
    IN  <<"n", "m", "a", "p", "_", "s", "c", "a", "n", "_">> \o safe_target \o
        <<"_">> \o timestamp \o <<".">> \o fmt

\* generate_unique_filename(output_format, target_cidr) called at clock reading t
generate_unique_filename(fmt, target_cidr, t) ==
    LET timestamp == strftime(now(t))
        safe_target == replace(replace(target_cidr, "/", "_"), ".", "_")
    IN  <<"n", "m", "a", "p", "_", "s", "c", "a", "n", "_">> \o safe_target \o
        <<"_">> \o timestamp \o <<".">> \o fmt

\* the command line f"nmap {output_flag} {output_filename} {options} {target}"
Command(flag, filename, opts, tgt) ==
    <<"n", "m", "a", "p">> \o <<" ">> \o flag \o <<" ">> \o filename \o <<" ">> \o
    opts \o <<" ">> \o tgt

----------------------------------------------------------------------------
(* State *)

VARIABLES
    pc,              \* position of the script
    out,             \* what the script has printed, in order
    help_answer,     \* line typed at the help prompt
    cidr_inputs,     \* lines typed at the CIDR prompt, in order
    target_cidr,     \* main: value returned by get_user_input
    target,          \* scan_network: the target parameter
    main_output_format, \* main: the stripped, lower-cased format answer
    output_format,   \* scan_network: the output_format parameter
    validated,       \* which of the input checks have been performed
    scanned,         \* targets scanner.scan was called with
    output_filename, \* scan_network: result of generate_unique_filename
    checked,         \* scan_network: name passed to os.path.exists
    command,         \* scan_network: command line given to Popen
    pbar_n,          \* the count of the tqdm bar
    nmap_state,      \* the nmap subprocess: none, spawned, running, failing, exited
    nmap_pending,    \* the write the subprocess is performing
    nmap_writes,     \* number of writes the subprocess has begun
    nmap_file,       \* output file named on the subprocess's command line
    nmap_overwrote,  \* the output file existed when the subprocess opened it
    nmap_exit,       \* exit status of the subprocess
    stdout_pipe,     \* lines in the stdout pipe
    stderr_pipe,     \* chunks in the stderr pipe
    fs,              \* names of the files that exist in the working directory
    reports,         \* names of the files that hold a complete nmap report
    clock,           \* wall clock, seconds since 2024-01-01 00:00:00
    ticks,           \* seconds elapsed since the start of the run
    other_pc,        \* a second instance of the script: idle, named, spawned
    other_filename   \* the second instance's output_filename

vars == <<pc, out, help_answer, cidr_inputs, target_cidr, target,
          main_output_format, output_format, validated,
          scanned, output_filename, checked, command, pbar_n, nmap_state,
          nmap_pending, nmap_writes, nmap_file, nmap_overwrote, nmap_exit,
          stdout_pipe, stderr_pipe, fs, reports, clock, ticks, other_pc,
          other_filename>>

inputVars == <<help_answer, cidr_inputs, target_cidr, target, main_output_format,
               output_format, validated>>
scanVars == <<scanned, output_filename, checked, command, pbar_n>>
nmapVars == <<nmap_state, nmap_pending, nmap_writes, nmap_file, nmap_overwrote,
              nmap_exit, stdout_pipe, stderr_pipe>>
envVars == <<fs, reports, clock, ticks, other_pc, other_filename>>

\* one printed message (or prompt); file is the file name it mentions
Msg(m, f) == [msg |-> m, file |-> f]

\* no write in progress
NoWrite == [fd |-> "none", line |-> <<>>]

Init ==
    /\ pc = "main"
    /\ out = <<>>
    /\ help_answer = None
    /\ cidr_inputs = <<>>
    /\ target_cidr = None
    /\ target = None
    /\ main_output_format = None
    /\ output_format = None
    /\ validated = {}
    /\ scanned = <<>>
    /\ output_filename = None
    /\ checked = None
    /\ command = None
    /\ pbar_n = 0
    /\ nmap_state = "none"
    /\ nmap_pending = NoWrite
    /\ nmap_writes = 0
    /\ nmap_file = None
    /\ nmap_overwrote = FALSE
    /\ nmap_exit = -1
    /\ stdout_pipe = <<>>
    /\ stderr_pipe = <<>>
    /\ fs = {}
    /\ reports = {}
    /\ clock \in StartClocks
    /\ ticks = 0
    /\ other_pc = "idle"
    /\ other_filename = None

----------------------------------------------------------------------------
(* main and get_user_input *)

\* the help prompt without the return after getHelp()
HelpPrompt_FallsThrough ==
    /\ pc = "main"
    /\ \E a \in HelpInputs :
        /\ help_answer' = a
        /\ IF lower(strip(a)) = Yes
           THEN out' = out \o <<Msg("prompt_help", None), Msg("help_text", None)>>
           ELSE out' = out \o <<Msg("prompt_help", None)>>
    /\ pc' = "get_user_input"
    /\ UNCHANGED <<cidr_inputs, target_cidr, target, main_output_format,
                   output_format, validated>>
    /\ UNCHANGED <<scanVars, nmapVars, envVars>>

\* main, lines 179-181: the help prompt; a help request prints the usage text
\* and returns
HelpPrompt ==
    /\ pc = "main"
    /\ \E a \in HelpInputs :
        /\ help_answer' = a
        /\ IF lower(strip(a)) = Yes
           THEN /\ out' = out \o <<Msg("prompt_help", None), Msg("help_text", None)>>
                /\ pc' = "returned"
           ELSE /\ out' = out \o <<Msg("prompt_help", None)>>
                /\ pc' = "get_user_input"
    /\ UNCHANGED <<cidr_inputs, target_cidr, target, main_output_format,
                   output_format, validated>>
    /\ UNCHANGED <<scanVars, nmapVars, envVars>>

\* get_user_input returning the stripped line whatever validate_cidr answers
GetUserInput_ReturnsUnchecked ==
    /\ pc = "get_user_input"
    /\ Len(cidr_inputs) < MaxCidrPrompts
    /\ \E line \in CidrInputs :
        LET cidr_input == strip(line)
        IN  /\ cidr_inputs' = Append(cidr_inputs, line)
            /\ validated' = validated \cup {"cidr"}
            /\ IF validate_cidr(cidr_input)
               THEN out' = out \o <<Msg("prompt_cidr", None)>>
               ELSE out' = out \o <<Msg("prompt_cidr", None),
                                    Msg("invalid_cidr", None)>>
            /\ target_cidr' = cidr_input
            /\ pc' = "format_prompt"
    /\ UNCHANGED <<help_answer, target, main_output_format, output_format>>
    /\ UNCHANGED <<scanVars, nmapVars, envVars>>

\* get_user_input, one turn of the loop: prompt, strip, validate_cidr; returns
\* the stripped line when it is valid, prints the complaint otherwise
GetUserInput ==
    /\ pc = "get_user_input"
    /\ Len(cidr_inputs) < MaxCidrPrompts
    /\ \E line \in CidrInputs :
        LET cidr_input == strip(line)
        IN  /\ cidr_inputs' = Append(cidr_inputs, line)
            /\ validated' = validated \cup {"cidr"}
            /\ IF validate_cidr(cidr_input)
               THEN /\ out' = out \o <<Msg("prompt_cidr", None)>>
                    /\ target_cidr' = cidr_input
                    /\ pc' = "format_prompt"
               ELSE /\ out' = out \o <<Msg("prompt_cidr", None),
                                       Msg("invalid_cidr", None)>>
                    /\ UNCHANGED <<target_cidr, pc>>
    /\ UNCHANGED <<help_answer, target, main_output_format, output_format>>
    /\ UNCHANGED <<scanVars, nmapVars, envVars>>

\* main, lines 184-186: the format prompt and the call of scan_network
FormatPrompt ==
    /\ pc = "format_prompt"
    /\ \E line \in FormatInputs :
        /\ main_output_format' = lower(strip(line))
        /\ output_format' = lower(strip(line))
        /\ out' = out \o <<Msg("prompt_format", None)>>
    /\ target' = target_cidr
    /\ pc' = "PortScanner"
    /\ UNCHANGED <<help_answer, cidr_inputs, target_cidr, validated>>
    /\ UNCHANGED <<scanVars, nmapVars, envVars>>

----------------------------------------------------------------------------
(* scan_network *)

\* line 113: nmap.PortScanner() raises PortScannerError when no nmap is found
PortScannerInit ==
    /\ pc = "PortScanner"
    /\ \/ pc' = "scan"
       \/ pc' = "raised"
    /\ UNCHANGED <<out, inputVars, scanVars, nmapVars, envVars>>

\* lines 114-127: scanner.scan(target, arguments=options), which raises when
\* nmap reports an error, then the printed host summary
ScannerScan ==
    /\ pc = "scan"
    /\ scanned' = Append(scanned, target)
    /\ \/ /\ pc' = "check_format"
          /\ out' = out \o <<Msg("hosts", None)>>
       \/ /\ pc' = "raised"
          /\ UNCHANGED out
    /\ UNCHANGED <<output_filename, checked, command, pbar_n>>
    /\ UNCHANGED <<inputVars, nmapVars, envVars>>

\* the format check printing its warning without replacing the format
CheckFormat_KeepsFormat ==
    /\ pc = "check_format"
    /\ validated' = validated \cup {"format"}
    /\ IF output_format \notin valid_formats
       THEN out' = out \o <<Msg("invalid_format", None)>>
       ELSE UNCHANGED out
    /\ pc' = "generate_unique_filename"
    /\ UNCHANGED <<help_answer, cidr_inputs, target_cidr, target, main_output_format,
                   output_format>>
    /\ UNCHANGED <<scanVars, nmapVars, envVars>>

\* lines 129-132: an unrecognised format is replaced by xml, with a warning
CheckFormat ==
    /\ pc = "check_format"
    /\ validated' = validated \cup {"format"}
    /\ IF output_format \notin valid_formats
       THEN /\ out' = out \o <<Msg("invalid_format", None)>>
            /\ output_format' = XML
       ELSE UNCHANGED <<out, output_format>>
    /\ pc' = "generate_unique_filename"
    /\ UNCHANGED <<help_answer, cidr_inputs, target_cidr, target, main_output_format>>
    /\ UNCHANGED <<scanVars, nmapVars, envVars>>

\* line 134
GenerateFilename ==
    /\ pc = "generate_unique_filename"
    /\ output_filename' = generate_unique_filename(output_format, target, clock)
    /\ pc' = "exists"
    /\ UNCHANGED <<scanned, checked, command, pbar_n>>
    /\ UNCHANGED <<out, inputVars, nmapVars, envVars>>

\* lines 136-137: os.path.exists(output_filename) and the overwrite warning
CheckExists ==
    /\ pc = "exists"
    /\ checked' = output_filename
    /\ IF output_filename \in fs
       THEN out' = out \o <<Msg("exists_overwriting", output_filename)>>
       ELSE UNCHANGED out
    /\ pc' = "Popen"
    /\ UNCHANGED <<scanned, output_filename, command, pbar_n>>
    /\ UNCHANGED <<inputVars, nmapVars, envVars>>

\* lines 139-162: the flag lookup (KeyError for a format that has no flag), the
\* progress bar, the command line and subprocess.Popen(command, shell=True)
Popen ==
    /\ pc = "Popen"
    /\ IF output_format \in DOMAIN output_flags
       THEN LET output_flag == output_flags[output_format]
                cmd == Command(output_flag, output_filename, options, target)
            IN  /\ command' = cmd
                /\ pbar_n' = 0
                /\ nmap_state' = "spawned"
                /\ nmap_file' = split(cmd, " ")[3]
                /\ pc' = "read_stdout"
       ELSE /\ pc' = "raised"
            /\ UNCHANGED <<command, pbar_n, nmap_state, nmap_file>>
    /\ UNCHANGED <<scanned, output_filename, checked>>
    /\ UNCHANGED <<nmap_pending, nmap_writes, nmap_overwrote, nmap_exit,
                   stdout_pipe, stderr_pipe>>
    /\ UNCHANGED <<out, inputVars, envVars>>

\* lines 164-168: one line of the subprocess's stdout; the bar advances by 10
\* when the line contains "Ports scanned"
ReadLine ==
    /\ pc = "read_stdout"
    /\ stdout_pipe # <<>>
    /\ LET line == Head(stdout_pipe)
       IN  pbar_n' = IF Contains(line, PortsScanned) THEN pbar_n + 10 ELSE pbar_n
    /\ stdout_pipe' = Tail(stdout_pipe)
    /\ UNCHANGED <<pc, out, scanned, output_filename, checked, command>>
    /\ UNCHANGED <<nmap_state, nmap_pending, nmap_writes, nmap_file,
                   nmap_overwrote, nmap_exit, stderr_pipe>>
    /\ UNCHANGED <<inputVars, envVars>>

\* line 164: end of file on stdout, reached when the subprocess has exited
ReadEOF ==
    /\ pc = "read_stdout"
    /\ stdout_pipe = <<>>
    /\ nmap_state = "exited"
    /\ pc' = "communicate"
    /\ UNCHANGED <<out, inputVars, scanVars, nmapVars, envVars>>

\* lines 170-172: process.communicate() drains stderr and waits for the exit;
\* the bar is closed and the completion message printed
Communicate ==
    /\ pc = "communicate"
    /\ nmap_state = "exited"
    /\ stderr_pipe' = <<>>
    /\ out' = out \o <<Msg("scan_complete", output_filename)>>
    /\ pc' = "returned"
    /\ UNCHANGED <<nmap_state, nmap_pending, nmap_writes, nmap_file,
                   nmap_overwrote, nmap_exit, stdout_pipe>>
    /\ UNCHANGED <<inputVars, scanVars, envVars>>

----------------------------------------------------------------------------
(* The nmap subprocess started by Popen *)

\* nmap parses its command line and opens (truncates) the output file, or
\* fails before it opens anything
NmapStart ==
    /\ nmap_state = "spawned"
    /\ \/ /\ nmap_state' = "running"
          /\ nmap_overwrote' = (nmap_file \in fs)
          /\ fs' = fs \cup {nmap_file}
       \/ /\ nmap_state' = "failing"
          /\ UNCHANGED <<nmap_overwrote, fs>>
    /\ UNCHANGED <<nmap_pending, nmap_writes, nmap_file, nmap_exit,
                   stdout_pipe, stderr_pipe>>
    /\ UNCHANGED <<reports, clock, ticks, other_pc, other_filename>>
    /\ UNCHANGED <<pc, out, inputVars, scanVars>>

\* the subprocess begins to write a line to stdout or a chunk to stderr
NmapBeginWrite ==
    /\ nmap_state \in {"running", "failing"}
    /\ nmap_pending = NoWrite
    /\ nmap_writes < MaxWrites
    /\ \/ \E l \in NmapLines : nmap_pending' = [fd |-> "stdout", line |-> l]
       \/ nmap_pending' = [fd |-> "stderr", line |-> <<"!">>]
    /\ nmap_writes' = nmap_writes + 1
    /\ UNCHANGED <<nmap_state, nmap_file, nmap_overwrote, nmap_exit,
                   stdout_pipe, stderr_pipe>>
    /\ UNCHANGED <<pc, out, inputVars, scanVars, envVars>>

\* the write completes once the pipe has room; until then the subprocess blocks
NmapEndWrite ==
    /\ nmap_pending # NoWrite
    /\ \/ /\ nmap_pending.fd = "stdout"
          /\ Len(stdout_pipe) < PipeCap
          /\ stdout_pipe' = Append(stdout_pipe, nmap_pending.line)
          /\ UNCHANGED stderr_pipe
       \/ /\ nmap_pending.fd = "stderr"
          /\ Len(stderr_pipe) < PipeCap
          /\ stderr_pipe' = Append(stderr_pipe, nmap_pending.line)
          /\ UNCHANGED stdout_pipe
    /\ nmap_pending' = NoWrite
    /\ UNCHANGED <<nmap_state, nmap_writes, nmap_file, nmap_overwrote, nmap_exit>>
    /\ UNCHANGED <<pc, out, inputVars, scanVars, envVars>>

\* the subprocess exits: status 0 with the report complete in its output file,
\* or a non-zero status and no report
NmapExit ==
    /\ nmap_state \in {"running", "failing"}
    /\ nmap_pending = NoWrite
    /\ nmap_state' = "exited"
    /\ IF nmap_state = "running"
       THEN /\ nmap_exit' = 0
            /\ reports' = reports \cup {nmap_file}
       ELSE /\ nmap_exit' = 1
            /\ UNCHANGED reports
    /\ UNCHANGED <<nmap_pending, nmap_writes, nmap_file, nmap_overwrote,
                   stdout_pipe, stderr_pipe>>
    /\ UNCHANGED <<fs, clock, ticks, other_pc, other_filename>>
    /\ UNCHANGED <<pc, out, inputVars, scanVars>>

----------------------------------------------------------------------------
(* Environment: the wall clock and a second instance of the script *)

\* a second of wall clock time passes
Tick ==
    /\ ticks < MaxTicks
    /\ clock' = clock + 1
    /\ ticks' = ticks + 1
    /\ UNCHANGED <<fs, reports, other_pc, other_filename>>
    /\ UNCHANGED <<pc, out, inputVars, scanVars, nmapVars>>

\* targets and formats the second instance was started with
OtherTargets == {<<"1", ".", "0", ".", "0", ".", "0", "/", "8">>}

OtherFormats == {XML}

\* the second instance reaches line 134 and calls generate_unique_filename
OtherGenerate ==
    /\ other_pc = "idle"
    /\ \E t \in OtherTargets, f \in OtherFormats :
        other_filename' = generate_unique_filename(f, t, clock)
    /\ other_pc' = "named"
    /\ UNCHANGED <<fs, reports, clock, ticks>>
    /\ UNCHANGED <<pc, out, inputVars, scanVars, nmapVars>>

\* the second instance's nmap subprocess opens its output file
OtherSpawn ==
    /\ other_pc = "named"
    /\ fs' = fs \cup {other_filename}
    /\ other_pc' = "spawned"
    /\ UNCHANGED <<reports, clock, ticks, other_filename>>
    /\ UNCHANGED <<pc, out, inputVars, scanVars, nmapVars>>

----------------------------------------------------------------------------

Next ==
    \/ HelpPrompt
    \/ GetUserInput
    \/ FormatPrompt
    \/ PortScannerInit
    \/ ScannerScan
    \/ CheckFormat
    \/ GenerateFilename
    \/ CheckExists
    \/ Popen
    \/ ReadLine
    \/ ReadEOF
    \/ Communicate
    \/ NmapStart
    \/ NmapBeginWrite
    \/ NmapEndWrite
    \/ NmapExit
    \/ Tick
    \/ OtherGenerate
    \/ OtherSpawn

Spec == Init /\ [][Next]_vars

----------------------------------------------------------------------------
(* Properties *)

\* number of times message m has been printed
Printed(m) == Cardinality({i \in 1..Len(out) : out[i].msg = m})

\* file names mentioned by the printed messages m
PrintedFiles(m) == {out[i].file : i \in {j \in 1..Len(out) : out[j].msg = m}}

\* the four formats and their nmap flags, as the interface documents them
FourFormats == {<<"x", "m", "l">>, <<"j", "s", "o", "n">>,
                <<"g", "r", "e", "p", "a", "b", "l", "e">>,
                <<"n", "o", "r", "m", "a", "l">>}

FlagFor(fmt) ==
    CASE fmt = <<"x", "m", "l">> -> <<"-", "o", "X">>
      [] fmt = <<"j", "s", "o", "n">> -> <<"-", "o", "J">>
      [] fmt = <<"g", "r", "e", "p", "a", "b", "l", "e">> -> <<"-", "o", "G">>
      [] fmt = <<"n", "o", "r", "m", "a", "l">> -> <<"-", "o", "N">>
      [] OTHER -> None

\* the typed lines whose stripped text validate_cidr accepts
AcceptedInputs == {c \in CidrInputs : validate_cidr(strip(c))}

\* texts of the two-digit decimal numbers lo..hi
TwoDigits(lo, hi) == {<<DigitChars[(k \div 10) + 1], DigitChars[(k % 10) + 1]>> : k \in lo..hi}

Months == TwoDigits(1, 12)
Days == TwoDigits(1, 31)
Hours == TwoDigits(0, 23)
Sixties == TwoDigits(0, 59)
Digits == {DigitChars[i] : i \in 1..10}

\* C1: get_user_input returns exactly the first stripped input validate_cidr
\* accepts, prompts once per input, complains once per rejected input, never
\* aborts on a rejected input, and the value it returned is, unchanged, the
\* target of scanner.scan and of the nmap command line.
C1_FirstValidInputIsTheTarget ==
    LET n == Len(cidr_inputs)
        rejected == {i \in 1..n : cidr_inputs[i] \notin AcceptedInputs}
    IN  /\ Printed("prompt_cidr") = n
        /\ Printed("invalid_cidr") = Cardinality(rejected)
        /\ target_cidr = None => rejected = 1..n /\ pc \in {"main", "returned", "get_user_input"}
        /\ target_cidr # None =>
              /\ n >= 1
              /\ rejected = 1..(n - 1)
              /\ target_cidr = strip(cidr_inputs[n])
              /\ pc # "get_user_input"
              /\ cidr_inputs[n] \in AcceptedInputs
        /\ target # None => target = target_cidr
        /\ \A i \in 1..Len(scanned) : scanned[i] = target_cidr
        /\ command # None =>
              LET k == Len(command) - Len(target_cidr)
              IN  command[k] = " " /\ SubSeq(command, k + 1, Len(command)) = target_cidr

\* C1 witness: an input was rejected, the next one was accepted after its
\* whitespace was stripped, and the scan and the subprocess were started with it
C1_Witness ==
    /\ Len(cidr_inputs) = 2
    /\ target_cidr # None
    /\ target_cidr # cidr_inputs[2]
    /\ scanned # <<>>
    /\ nmap_state # "none"

\* C2: when the answer to the help prompt is a help request, main prints the
\* usage text and returns: no CIDR or format prompt, no scanner.scan, no nmap
\* subprocess, no output file.
C2_HelpShortCircuits ==
    (help_answer # None /\ lower(strip(help_answer)) = <<"y", "e", "s">>) =>
        /\ pc = "returned"
        /\ out = <<Msg("prompt_help", None), Msg("help_text", None)>>
        /\ cidr_inputs = <<>>
        /\ main_output_format = None
        /\ scanned = <<>>
        /\ nmap_state = "none"
        /\ command = None
        /\ output_filename = None
        /\ reports = {}

\* C2 witness: a help request in capitals with surrounding blanks was served
C2_Witness ==
    /\ help_answer = <<" ", "Y", "E", "S", " ">>
    /\ Printed("help_text") = 1
    /\ pc = "returned"

\* C3: once scan_network has checked the format, a value outside the four
\* formats has become xml with one warning printed, a value inside is unchanged
\* with no warning; the extension of the file name and the format of the flag
\* lookup are one of the four, and the lookup does not fail.
C3_FormatFallback ==
    /\ Printed("invalid_format") <= 1
    /\ "format" \in validated =>
          /\ main_output_format \notin FourFormats =>
                output_format = <<"x", "m", "l">> /\ Printed("invalid_format") = 1
          /\ main_output_format \in FourFormats =>
                output_format = main_output_format /\ Printed("invalid_format") = 0
          /\ pc # "raised"
    /\ output_filename # None =>
          \E k \in 1..Len(output_filename) :
              /\ output_filename[k] = "."
              /\ SubSeq(output_filename, k + 1, Len(output_filename)) \in FourFormats
    /\ command # None =>
          /\ nmap_state # "none"
          /\ SubSeq(command, 6, 8) \in {FlagFor(f) : f \in FourFormats}

\* C3 witness: an unrecognised format was given and the subprocess was spawned
C3_Witness ==
    /\ main_output_format = <<"y", "a", "m", "l">>
    /\ nmap_state # "none"
    /\ command # None

\* C4: the file name is nmap_scan_{target with / and . replaced by _}_
\* {YYYYMMDD_HHMMSS}.{format}; the flag in the command line is the one of that
\* format; the name in the command line, the name checked for existence, the
\* name the subprocess writes and the name in the completion message are equal.
C4_FileNameAndFlag ==
    /\ output_filename # None =>
          LET f == output_filename
              n == Len(target)
              ts == SubSeq(f, 12 + n, 26 + n)
              num(a, b) == SubSeq(ts, a, b)
          IN  /\ Len(f) = 27 + n + Len(output_format)
              /\ SubSeq(f, 1, 10) = <<"n", "m", "a", "p", "_", "s", "c", "a", "n", "_">>
              /\ \A i \in 1..n :
                    f[10 + i] = IF target[i] \in {"/", "."} THEN "_" ELSE target[i]
              /\ f[11 + n] = "_"
              /\ \A i \in 1..4 : ts[i] \in Digits
              /\ num(5, 6) \in Months /\ num(7, 8) \in Days
              /\ ts[9] = "_"
              /\ num(10, 11) \in Hours /\ num(12, 13) \in Sixties
              /\ num(14, 15) \in Sixties
              /\ f[27 + n] = "."
              /\ SubSeq(f, 28 + n, Len(f)) = output_format
              /\ output_format \in FourFormats
    /\ command # None =>
          command = <<"n", "m", "a", "p", " ">> \o FlagFor(output_format) \o <<" ">> \o
                    output_filename \o <<" ">> \o options \o <<" ">> \o target
    /\ checked # None => checked = output_filename
    /\ nmap_file # None => nmap_file = output_filename
    /\ PrintedFiles("exists_overwriting") \subseteq {output_filename}
    /\ PrintedFiles("scan_complete") \subseteq {output_filename}

\* C4 witness: a grepable scan of a target with a prefix length ran to its
\* completion message
C4_Witness ==
    /\ Printed("scan_complete") = 1
    /\ output_format = <<"g", "r", "e", "p", "a", "b", "l", "e">>
    /\ \E i \in 1..Len(target) : target[i] = "/"
    /\ checked # None

\* C5: if the output file exists when the nmap subprocess opens it, the
\* overwrite warning was printed earlier in the run.
C5_OverwriteIsWarned ==
    nmap_overwrote => Printed("exists_overwriting") >= 1

\* C6: two calls of generate_unique_filename, here by two concurrently running
\* instances of the script, return different file names.
C6_FileNamesAreUnique ==
    (output_filename # None /\ other_filename # None) =>
        output_filename # other_filename

\* C7: once the scan is finished and "Scan complete" is printed, the count of
\* the progress bar equals its total.
C7_ProgressReachesTotal ==
    Printed("scan_complete") >= 1 => pbar_n = total_ports

\* C8: the CIDR check and the output format check have both been performed
\* before scanner.scan is called and before the nmap subprocess is spawned.
C8_ValidationBeforeScan ==
    (scanned # <<>> \/ nmap_state # "none") => validated = {"cidr", "format"}

\* C9: when "Scan complete. Results saved to F" is printed, the subprocess has
\* exited and the report has been written to F; a failed subprocess is not
\* reported as saved.
C9_CompleteMeansSaved ==
    \A f \in PrintedFiles("scan_complete") :
        nmap_state = "exited" /\ nmap_exit = 0 /\ f \in reports

\* the subprocess is blocked writing to a full stderr pipe while the script is
\* blocked reading an empty stdout pipe
PipeDeadlock ==
    /\ pc = "read_stdout"
    /\ stdout_pipe = <<>>
    /\ nmap_state \in {"running", "failing"}
    /\ nmap_pending.fd = "stderr"
    /\ Len(stderr_pipe) >= PipeCap

\* C10: there is no reachable state where the subprocess is blocked writing to
\* a full stderr pipe while the script is blocked reading stdout.
C10_NoPipeDeadlock == ~PipeDeadlock

====
